---------------------------- MODULE Spec2Model ----------------------------
(***************************************************************************)
(* Two programs of the cookbook are modelled here.                         *)
(*                                                                         *)
(*  1. "Using reasoning for routine generation": the articles are read     *)
(*     from a CSV file, process_article is mapped over them on a           *)
(*     ThreadPoolExecutor, the results are put in a DataFrame and          *)
(*     displayed.  Specification: Spec.                                    *)
(*                                                                         *)
(*  2. "GPT Actions - Snowflake middleware": the Azure Function that       *)
(*     answers the executeSQL POST.  Specification: MwSpec.                *)
(*                                                                         *)
(* Texts (article contents, routines) are sequences of characters; the     *)
(* only characters that matter to the code are the newline and what        *)
(* format_text puts in its place, so a text is a sequence over             *)
(* {"a", "b", "\n", "<br>"}.  Python's None is the record None below, a    *)
(* present text t is Some(t).                                              *)
(***************************************************************************)
EXTENDS Naturals, Sequences, FiniteSets, TLC

\* ------------------------------------------------------------------ bounds

\* The CSV file holds at most MaxArticles rows.
MaxArticles == 3

\* The fairness specification runs the fan-out over at most LiveArticles rows.
LiveArticles == 2

\* A query returns at most MaxRows rows.
MaxRows == 2

\* The clock is followed for MaxClock hours.
MaxClock == 2

\* upload_csv_to_azure is invoked by NumCallers concurrent requests.
NumCallers == 2

\* ------------------------------------------------------------- Python values

None == [none |-> TRUE, text |-> <<>>]

Some(t) == [none |-> FALSE, text |-> t]

NL == "\n"

BR == "<br>"

\* The values of the "policy" column.
Policies == {"p1", "p2"}

\* The values of the "content" column: one without and one with a newline.
Contents == {<<"a">>, <<"a", NL, "b">>}

\* What the endpoint's message.content can be.
RoutineTexts == {<<"s">>, <<"s", NL, "t">>}

\* A call of client.chat.completions.create returns a text or raises.
Raises == [ok |-> FALSE, text |-> <<>>]

Returns(t) == [ok |-> TRUE, text |-> t]

Responses == {Raises} \cup {Returns(t) : t \in RoutineTexts}

Rows == [policy : Policies, content : Contents]

SeqsUpTo(S, n) == UNION {[1..k -> S] : k \in 0..n}

\* ------------------------------------------------------------------- state

VARIABLES
    \* routine generation
    pc,         \* the notebook's position: which cell (or part of it) runs next
    csv_rows,   \* the rows of ../data/helpcenter_articles.csv
    articles,   \* the list articles
    wstate,     \* wstate[i]: the work item of articles[i]: queued, calling, done
    requests,   \* requests[i]: how many create() calls were issued for articles[i]
    response,   \* response[i]: what the last create() call for articles[i] did
    future,     \* future[i]: the Future of the work item of articles[i]
    fs,         \* the futures executor.map has still to yield, in order
    results,    \* the list results
    printed,    \* how many "An error occurred" lines were printed
    df,         \* the DataFrame, one row per record
    shown,      \* what display() was given, one entry per call
    uncaught,   \* the exception that ended the notebook's run, or "none"
    overtaken,  \* history: some work item ended before an earlier one had
    \* the middleware function, one invocation
    mpc,            \* the statement the invocation is at
    req,            \* the HTTP request
    token,          \* the local token
    conn,           \* the local conn: unbound, open, closed
    conn_user,      \* the user the connection was opened for
    cursor,         \* the local cursor: unbound, open, closed
    sql_query,      \* the local sql_query
    executed,       \* the arguments cursor.execute was called with, in order
    query_ok,       \* history: cursor.execute and fetchall returned
    csv_file_path,  \* the local csv_file_path
    blob_uploaded,  \* the blob holds the CSV
    csv_url,        \* the local csv_url
    status,         \* the status code of the HTTP response, 0 before it is sent
    body,           \* openaiFileResponse of the response
    sent,           \* how many responses the invocation was answered with
    mlog,           \* the messages given to logging.error / logger.error
    failed,         \* history: the external calls that raised
    propagated,     \* history: the calls whose exception left their function
    connect_args,   \* what snowflake.connector.connect was called with
    query_results,  \* the local results: the rows fetchall returned
    csv_file,       \* the temporary file of write_results_to_csv
    blob_name,      \* the blob_name upload_csv_to_azure is called with
    blob,           \* the blob of that name in the container
    sas,            \* the SAS token generate_blob_sas returned
    clock           \* datetime.utcnow(), in hours

\* Concurrent invocations of upload_csv_to_azure on one container.
VARIABLES
    ppc,            \* where each invocation is
    pname,          \* the blob_name each invocation is called with
    pfile,          \* the records of the file each invocation is called with
    container,      \* the blobs of the container, by name
    purl,           \* the blob each returned URL names, "unbound" before
    last,           \* history: whose upload_blob of a name completed last
    pfailed         \* history: the invocations one of whose calls raised

fanVars == <<pc, csv_rows, articles, wstate, requests, response, future, fs,
             results, printed, df, shown, uncaught, overtaken>>

mwVars == <<mpc, req, token, conn, conn_user, cursor, sql_query, executed,
            query_ok, csv_file_path, blob_uploaded, csv_url, status, body, sent,
            mlog, failed, propagated, connect_args, query_results, csv_file,
            blob_name, blob, sas, clock>>

pairVars == <<ppc, pname, pfile, container, purl, last, pfailed>>

vars == <<fanVars, mwVars, pairVars>>

NoRecord == [policy |-> "", content |-> <<>>, routine |-> None]

Pending == [kind |-> "pending", value |-> NoRecord]

NoResponses == [i \in {} |-> Raises]

Indices == 1..Len(articles)

\* ------------------------------------------------------ routine generation

\* text.replace('\n', '<br>')
format_text(text) == [k \in DOMAIN text |-> IF text[k] = NL THEN BR ELSE text[k]]

\* generate_routine without the net under it: the except clause prints and
\* raises again.
generate_routine_reraise(resp) ==
    IF resp.ok
    THEN [raised |-> FALSE, printed |-> 0, value |-> Some(resp.text)]
    ELSE [raised |-> TRUE, printed |-> 1, value |-> None]

\* What generate_routine does with the outcome of its create() call: the text
\* is returned; an exception is caught and printed and the function falls off
\* its end, returning None.  raised: an exception leaves the function.
generate_routine(resp) ==
    IF resp.ok
    THEN [raised |-> FALSE, printed |-> 0, value |-> Some(resp.text)]
    ELSE [raised |-> FALSE, printed |-> 1, value |-> None]

\* The outcome read from a slot all workers write: another worker's, once
\* another worker has written it.
ResponseSeenByShared(i, r) ==
    IF \E j \in DOMAIN response : j # i
    THEN response[CHOOSE j \in DOMAIN response : j # i]
    ELSE r

\* The outcome the worker of articles[i] sees: the return value of its own
\* call, a local of its own frame.
ResponseSeenBy(i, r) == r

\* The Future of process_article(article): its result, or the exception that
\* left it.
process_article(article, resp) ==
    LET g == generate_routine(resp)
    IN  IF g.raised
        THEN [kind |-> "exception", value |-> NoRecord]
        ELSE [kind |-> "result",
              value |-> [policy  |-> article.policy,
                         content |-> article.content,
                         routine |-> g.value]]

\* A retry loop: a failed call puts the item back.
WorkerAfterCallRetry(resp) == IF resp.ok THEN "done" ELSE "queued"

\* A work item that a failed call leaves unresolved: its future is never set.
WorkerAfterCallStuck(resp) == IF resp.ok THEN "done" ELSE "failed"

\* Where the work item goes after its create() call ended: there is no retry
\* loop, generate_routine returns either way.
WorkerAfterCall(resp) == "done"

\* Neither result() nor shutdown waits.
WorkerFinishedNoWait(i) == TRUE

\* Future.result() and the executor's shutdown(wait=True) both block until
\* the work item has run to its end.
WorkerFinished(i) == wstate[i] = "done"

\* as_completed in place of map: any future not yet yielded.
NextFutureAsCompleted(pending) == {pending[k] : k \in DOMAIN pending}

\* The futures executor.map's generator may yield next: it pops them in the
\* order of submission.
NextFuture(pending) == {Head(pending)}

Without(s, i) == SelectSeq(s, LAMBDA x : x # i)

FanInit ==
    /\ pc = "read"
    /\ csv_rows \in SeqsUpTo(Rows, MaxArticles)
    /\ articles = <<>>
    /\ wstate = <<>>
    /\ requests = <<>>
    /\ response = NoResponses
    /\ future = <<>>
    /\ fs = <<>>
    /\ results = <<>>
    /\ printed = 0
    /\ df = <<>>
    /\ shown = <<>>
    /\ uncaught = "none"
    /\ overtaken = FALSE

\* An entry that takes its policy from another place than the row's policy
\* column.
ArticleOfFixedPolicy(row) == [policy |-> "p1", content |-> row.content]

\* The dict appended for one row of the DictReader.
ArticleOf(row) == [policy |-> row.policy, content |-> row.content]

\* The cell that reads the CSV: one entry per row, in the file's order.
ReadArticles ==
    /\ pc = "read"
    /\ articles' = [k \in 1..Len(csv_rows) |-> ArticleOf(csv_rows[k])]
    /\ pc' = "map"
    /\ UNCHANGED <<csv_rows, wstate, requests, response, future, fs, results,
                   printed, df, shown, uncaught>>
    /\ UNCHANGED <<overtaken, mwVars, pairVars>>

\* executor.map(process_article, articles): every item is submitted at once.
Map ==
    /\ pc = "map"
    /\ wstate' = [i \in Indices |-> "queued"]
    /\ requests' = [i \in Indices |-> 0]
    /\ future' = [i \in Indices |-> Pending]
    /\ fs' = [i \in Indices |-> i]
    /\ pc' = "collect"
    /\ UNCHANGED <<csv_rows, articles, response, results, printed, df, shown, uncaught>>
    /\ UNCHANGED <<overtaken, mwVars, pairVars>>

\* A pool thread takes the work item of articles[i] and issues its request.
\* (The pool has min(32, cpu + 4) threads, more than MaxArticles + 1: no item
\* waits for a thread, and the requests go out in any order.)
Start(i) ==
    /\ pc = "collect"
    /\ wstate[i] = "queued"
    /\ wstate' = [wstate EXCEPT ![i] = "calling"]
    /\ requests' = [requests EXCEPT ![i] = @ + 1]
    /\ UNCHANGED <<pc, csv_rows, articles, response, future, fs, results,
                   printed, df, shown, uncaught>>
    /\ UNCHANGED <<overtaken, mwVars, pairVars>>

\* The create() call of articles[i] ends with r, and generate_routine and
\* process_article run to their end.
Finish(i, r) ==
    /\ pc = "collect"
    /\ wstate[i] = "calling"
    /\ response' = [j \in DOMAIN response \cup {i} |-> IF j = i THEN r ELSE response[j]]
    /\ wstate' = [wstate EXCEPT ![i] = WorkerAfterCall(r)]
    /\ printed' = printed + generate_routine(ResponseSeenBy(i, r)).printed
    /\ future' = IF WorkerAfterCall(r) = "done"
                 THEN [future EXCEPT ![i] = process_article(articles[i], ResponseSeenBy(i, r))]
                 ELSE future
    /\ UNCHANGED <<pc, csv_rows, articles, requests, fs, results, df, shown, uncaught>>
    /\ overtaken' = (overtaken \/ \E j \in 1..(i - 1) : wstate[j] # "done")
    /\ UNCHANGED <<mwVars, pairVars>>

\* list(...) takes the next future's result(); an exception of the work item
\* is raised again here and ends the cell.
Collect ==
    /\ pc = "collect"
    /\ fs # <<>>
    /\ \E i \in NextFuture(fs) :
          /\ WorkerFinished(i)
          /\ IF future[i].kind = "exception"
             THEN /\ pc' = "crashed"
                  /\ uncaught' = "Exception"
                  /\ UNCHANGED <<fs, results>>
             ELSE /\ results' = Append(results, future[i].value)
                  /\ fs' = Without(fs, i)
                  /\ UNCHANGED <<pc, uncaught>>
    /\ UNCHANGED <<csv_rows, articles, wstate, requests, response, future,
                   printed, df, shown>>
    /\ UNCHANGED <<overtaken, mwVars, pairVars>>

\* The end of the with block: executor.shutdown(wait=True).
Shutdown ==
    /\ pc = "collect"
    /\ fs = <<>>
    /\ \A i \in Indices : WorkerFinished(i)
    /\ pc' = "df"
    /\ UNCHANGED <<csv_rows, articles, wstate, requests, response, future, fs,
                   results, printed, df, shown, uncaught>>
    /\ UNCHANGED <<overtaken, mwVars, pairVars>>

\* df = pd.DataFrame(results)
MakeDataFrame ==
    /\ pc = "df"
    /\ df' = results
    /\ pc' = "display"
    /\ UNCHANGED <<csv_rows, articles, wstate, requests, response, future, fs,
                   results, printed, shown, uncaught>>
    /\ UNCHANGED <<overtaken, mwVars, pairVars>>

\* df_formatted of display_formatted_dataframe: format_text applied to every
\* cell of the columns content and routine.
FormattedTable(table) ==
    [k \in DOMAIN table |->
        [policy  |-> table[k].policy,
         content |-> format_text(table[k].content),
         routine |-> Some(format_text(table[k].routine.text))]]

\* display_formatted_dataframe(df): format_text(None) is None.replace(...),
\* an AttributeError, which nothing catches.
Display ==
    /\ pc = "display"
    /\ IF \E k \in DOMAIN df : df[k].routine.none
       THEN /\ pc' = "crashed"
            /\ uncaught' = "AttributeError"
            /\ UNCHANGED shown
       ELSE /\ shown' = Append(shown, FormattedTable(df))
            /\ pc' = "done"
            /\ UNCHANGED uncaught
    /\ UNCHANGED <<csv_rows, articles, wstate, requests, response, future, fs,
                   results, printed, df>>
    /\ UNCHANGED <<overtaken, mwVars, pairVars>>

FanNext ==
    \/ ReadArticles
    \/ Map
    \/ \E i \in Indices : Start(i)
    \/ \E i \in Indices, r \in Responses : Finish(i, r)
    \/ Collect
    \/ Shutdown
    \/ MakeDataFrame
    \/ Display

\* ------------------------------------------------------------- middleware

\* The Authorization header: absent (headers.get returns None), or a string,
\* given by the parts str.split() cuts it in.
NoHeader == [present |-> FALSE, parts |-> <<>>]

Header(p) == [present |-> TRUE, parts |-> p]

\* Bearer tokens: two that Entra ID issued and Snowflake accepts, one that
\* decodes but Snowflake rejects, one that is no JWT.
Tokens == {"tokAlice", "tokBob", "tokExpired", "garbage"}

AuthHeaders ==
    {NoHeader, Header(<<"Bearer">>), Header(<<"Bearer", "tokAlice", "x">>)}
        \cup {Header(<<"Bearer", t>>) : t \in Tokens}

\* sql_query as the caller can send it: "None" is an absent parameter.
Queries == {"q1", "q2"}

Requests == [auth : AuthHeaders, params : Queries \cup {"None"}, body : Queries]

\* An extraction that takes the first two parts and ignores the rest.
SplitsInTwoOrMore(h) == h.present /\ Len(h.parts) >= 2

\* token_type, token = auth_header.split(): None has no split
\* (AttributeError), and the unpacking needs exactly two parts (ValueError).
SplitsInTwo(h) == h.present /\ Len(h.parts) = 2

\* decoded_token.get of a claim that names the same user in every token.
jwt_decode_other_claim(t) ==
    IF t = "garbage"
    THEN [ok |-> FALSE, upn |-> "None"]
    ELSE [ok |-> TRUE, upn |-> "alice@example.com"]

\* jwt.decode(token, options={"verify_signature": False}) and .get('upn')
jwt_decode(t) ==
    IF t = "garbage"
    THEN [ok |-> FALSE, upn |-> "None"]
    ELSE [ok |-> TRUE,
          upn |-> IF t = "tokBob" THEN "bob@example.com" ELSE "alice@example.com"]

\* Snowflake's side of connect(authenticator="oauth"): the security
\* integration validates the token and maps its upn claim to the login name.
SnowflakeAccepts(user, t) ==
    /\ t \in {"tokAlice", "tokBob"}
    /\ user = jwt_decode(t).upn

TempPath == "/tmp/tmpfile"

PresignedUrl == "https://account.blob.core.windows.net/container/blob?sas"

MsgConnect == "Failed to connect to Snowflake"

MsgQuery == "Error executing query or processing data"

MsgCsv == "Error writing results to CSV"

MsgUpload == "Error uploading file to Azure Blob Storage"

\* The except clauses: whether the exception is logged, and whether it is
\* raised again.
\* The connect call not yet made.
NoConnect == [called |-> FALSE, user |-> "None", token |-> "None"]

\* cursor.description of the query: the column names.
ColumnNames == <<"ID", "YEAR">>

\* The rows fetchall can return: tuples with one value per column.
RowValues == {<<"1", "2013">>, <<"2", "2013">>}

\* What csv.writer writes for one row: the values with the delimiter between
\* them (no value of RowValues or ColumnNames needs quoting).
CsvLine(fields) ==
    [k \in 1..(2 * Len(fields) - 1) |->
        IF k % 2 = 1 THEN fields[(k + 1) \div 2] ELSE ","]

\* The records of a file without its header row.
CsvRecordsNoHeader(cols, rows) == [k \in DOMAIN rows |-> CsvLine(rows[k])]

\* The records write_results_to_csv writes: writerow(column_names), then
\* writerows(results).
CsvRecords(cols, rows) == <<CsvLine(cols)>> \o [k \in DOMAIN rows |-> CsvLine(rows[k])]

\* The temporary file before NamedTemporaryFile created it.
NoFile == [exists |-> FALSE, closed |-> FALSE, records |-> <<>>, buffer |-> <<>>]

\* tempfile.NamedTemporaryFile(delete=False, mode='w', newline=''): an empty
\* file, open for writing.
NamedTemporaryFile ==
    [exists |-> TRUE, closed |-> FALSE, records |-> <<>>, buffer |-> <<>>]

\* csv_writer.writerow / writerows: the records go to the file object's
\* buffer.
TempFileWrite(f, recs) == [f EXCEPT !.buffer = f.buffer \o recs]

\* close() of a file made with the default delete=True: the file is removed.
TempFileCloseDelete(f) ==
    [exists |-> FALSE, closed |-> TRUE, records |-> <<>>, buffer |-> <<>>]

\* temp_file.close() of a file made with delete=False: the buffer is flushed
\* and the file stays.
TempFileClose(f) ==
    [exists |-> TRUE, closed |-> TRUE, records |-> f.records \o f.buffer,
     buffer |-> <<>>]

\* An open that gives a readable file for whatever it is called with.
OpenForReadAny(path, f) == TRUE

\* open(file_path, "rb"): a TypeError for None, a FileNotFoundError when no
\* file has that path.
OpenForRead(path, f) == path = TempPath /\ f.exists

ContainerName == "container"

BlobNames == {"b1.csv", "b2.csv"}

\* upload_blob without content_settings: the service's defaults.
ContentSettingsDefault(name) ==
    [content_type |-> "application/octet-stream", content_disposition |-> <<>>]

\* ContentSettings(content_type='text/csv',
\*                 content_disposition=f'attachment; filename="{blob_name}"')
ContentSettingsOf(name) ==
    [content_type |-> "text/csv",
     content_disposition |-> <<"attachment; filename=", name>>]

NoBlob == [exists |-> FALSE, name |-> "None", content |-> <<>>,
           settings |-> ContentSettingsDefault("None")]

\* timedelta(hours=1)
SasLifetimeHours == 1

\* An expiry a day away.
SasExpiryDay(now) == now + 24

\* expiry=datetime.datetime.utcnow() + datetime.timedelta(hours=1)
SasExpiry(now) == now + SasLifetimeHours

\* generate_blob_sas(container_name=..., blob_name=...,
\*                   permission=BlobSasPermissions(read=True), expiry=...)
generate_blob_sas(container_name, name, now) ==
    [minted |-> TRUE, container |-> container_name, blob |-> name,
     permissions |-> {"read"}, issued |-> now, expiry |-> SasExpiry(now)]

NoSas == [minted |-> FALSE, container |-> "None", blob |-> "None",
          permissions |-> {}, issued |-> 0, expiry |-> 0]

\* "The openaiFileResponse is a list which can include up to 10 URLs".
MaxFileResponses == 10

\* A response without its file.
FileResponseEmpty(url) == <<>>

\* response = {'openaiFileResponse': [csv_url]}
FileResponse(url) == <<url>>

\* Variants of the except clauses: write_results_to_csv raising again, and
\* upload_csv_to_azure without its raise.
CsvExceptReraise == [logs |-> TRUE, reraises |-> TRUE]

UploadExceptSwallow == [logs |-> TRUE, reraises |-> FALSE]

ConnectExcept == [logs |-> TRUE, reraises |-> FALSE]

QueryExcept == [logs |-> TRUE, reraises |-> FALSE]

CsvExcept == [logs |-> TRUE, reraises |-> FALSE]

UploadExcept == [logs |-> TRUE, reraises |-> TRUE]

Logged(E, msg) == IF E.logs THEN Append(mlog, msg) ELSE mlog

MwInit ==
    /\ mpc = "extract"
    /\ req \in Requests
    /\ token = "unbound"
    /\ conn = "unbound"
    /\ conn_user = "None"
    /\ cursor = "unbound"
    /\ sql_query = "unbound"
    /\ executed = <<>>
    /\ query_ok = FALSE
    /\ csv_file_path = "unbound"
    /\ blob_uploaded = FALSE
    /\ csv_url = "unbound"
    /\ status = 0
    /\ body = <<>>
    /\ sent = 0
    /\ mlog = <<>>
    /\ failed = {}
    /\ propagated = {}
    /\ connect_args = NoConnect
    /\ query_results = <<>>
    /\ csv_file = NoFile
    /\ blob_name \in BlobNames
    /\ blob = NoBlob
    /\ sas = NoSas
    /\ clock = 0

\* auth_header = req.headers.get('Authorization'); token_type, token =
\* auth_header.split(): None has no split (AttributeError), and the unpacking
\* needs exactly two parts (ValueError).  Neither is inside a try.
ExtractToken ==
    /\ mpc = "extract"
    /\ IF ~SplitsInTwo(req.auth)
       THEN /\ mpc' = "raised"
            /\ UNCHANGED token
       ELSE /\ token' = req.auth.parts[2]
            /\ mpc' = "connect"
    /\ UNCHANGED <<req, conn, conn_user, cursor, sql_query, executed, query_ok,
                   csv_file_path, blob_uploaded, csv_url, status, body, sent,
                   mlog, failed, propagated>>
    /\ UNCHANGED <<connect_args, query_results, csv_file, blob_name, blob, sas, clock>>
    /\ UNCHANGED <<fanVars, pairVars>>

\* The try block around jwt.decode and snowflake.connector.connect.  netOk:
\* the connect call reaches Snowflake.
Connect(netOk) ==
    /\ mpc = "connect"
    /\ LET d == jwt_decode(token)
       IN  IF d.ok /\ netOk /\ SnowflakeAccepts(d.upn, token)
           THEN /\ conn' = "open"
                /\ conn_user' = d.upn
                /\ mpc' = "query"
                /\ UNCHANGED <<mlog, failed, propagated>>
           ELSE /\ mlog' = Logged(ConnectExcept, MsgConnect)
                /\ failed' = IF d.ok THEN failed \cup {"connect"} ELSE failed
                /\ propagated' = IF d.ok /\ ConnectExcept.reraises
                                 THEN propagated \cup {"connect"}
                                 ELSE propagated
                /\ mpc' = IF ConnectExcept.reraises THEN "raised" ELSE "query"
                /\ UNCHANGED <<conn, conn_user>>
    /\ UNCHANGED <<req, token, cursor, sql_query, executed, query_ok,
                   csv_file_path, blob_uploaded, csv_url, status, body, sent>>
    /\ connect_args' = IF jwt_decode(token).ok
                       THEN [called |-> TRUE, user |-> jwt_decode(token).upn,
                             token |-> token]
                       ELSE connect_args
    /\ UNCHANGED <<query_results, csv_file, blob_name, blob, sas, clock>>
    /\ UNCHANGED <<fanVars, pairVars>>

\* A connection object that is there whether or not connect returned.
CursorAvailableAlways(c) == TRUE

\* conn.cursor() needs the conn that connect returned: when the connect's try
\* block failed, conn was never bound.
CursorAvailable(c) == c = "open"

\* sql_query = req.params.get('sql_query'), then the try block up to the
\* logger.info: conn.cursor() (a NameError when conn was never bound),
\* cursor.execute(sql_query), fetchall (returning rows), description.
ExecuteQuery(execOk, rows) ==
    /\ mpc = "query"
    /\ sql_query' = req.params
    /\ IF ~CursorAvailable(conn)
       THEN /\ mlog' = Logged(QueryExcept, MsgQuery)
            /\ mpc' = IF QueryExcept.reraises THEN "raised" ELSE "upload"
            /\ UNCHANGED <<cursor, executed, query_ok, query_results, failed,
                           propagated>>
       ELSE /\ cursor' = "open"
            /\ executed' = Append(executed, req.params)
            /\ IF execOk /\ req.params # "None"
               THEN /\ query_ok' = TRUE
                    /\ query_results' = rows
                    /\ mpc' = "csv"
                    /\ UNCHANGED <<mlog, failed, propagated>>
               ELSE /\ mlog' = Logged(QueryExcept, MsgQuery)
                    /\ failed' = failed \cup {"execute"}
                    /\ propagated' = IF QueryExcept.reraises
                                     THEN propagated \cup {"execute"}
                                     ELSE propagated
                    /\ mpc' = IF QueryExcept.reraises THEN "raised" ELSE "upload"
                    /\ UNCHANGED <<query_ok, query_results>>
    /\ UNCHANGED <<req, token, conn, conn_user, csv_file_path, blob_uploaded,
                   csv_url, status, body, sent>>
    /\ UNCHANGED <<connect_args, csv_file, blob_name, blob, sas, clock>>
    /\ UNCHANGED <<fanVars, pairVars>>

\* csv_file_path = write_results_to_csv(results, column_names), the last
\* statement of the query's try block.  csvOk: the file is created and
\* written.  The function's except clause logs and falls off the end (None).
WriteCsv(csvOk) ==
    /\ mpc = "csv"
    /\ IF csvOk
       THEN /\ csv_file' = TempFileClose(TempFileWrite(NamedTemporaryFile,
                                 CsvRecords(ColumnNames, query_results)))
            /\ csv_file_path' = TempPath
            /\ mpc' = "upload"
            /\ UNCHANGED <<mlog, failed, propagated>>
       ELSE /\ failed' = failed \cup {"csv"}
            /\ UNCHANGED csv_file
            /\ IF CsvExcept.reraises
               THEN /\ propagated' = propagated \cup {"csv"}
                    /\ mlog' = LET l == Logged(CsvExcept, MsgCsv)
                               IN  IF QueryExcept.logs THEN Append(l, MsgQuery) ELSE l
                    /\ mpc' = IF QueryExcept.reraises THEN "raised" ELSE "upload"
                    /\ UNCHANGED csv_file_path
               ELSE /\ mlog' = Logged(CsvExcept, MsgCsv)
                    /\ csv_file_path' = "None"
                    /\ mpc' = "upload"
                    /\ UNCHANGED propagated
    /\ UNCHANGED <<req, token, conn, conn_user, cursor, sql_query, executed,
                   query_ok, blob_uploaded, csv_url, status, body, sent>>
    /\ UNCHANGED <<connect_args, query_results, blob_name, blob, sas, clock>>
    /\ UNCHANGED <<fanVars, pairVars>>

\* csv_url = upload_csv_to_azure(csv_file_path, ...): the call that binds the
\* csv_url the response is built from.  Naming csv_file_path when the query's
\* try block never bound it is a NameError before the function is entered;
\* open(None, "rb") is a TypeError inside its try.  upOk: upload_blob
\* returns; sasOk: generate_blob_sas returns.
Upload(upOk, sasOk) ==
    /\ mpc = "upload"
    /\ IF csv_file_path = "unbound"
       THEN /\ mpc' = "raised"
            /\ UNCHANGED <<blob_uploaded, csv_url, mlog, failed, propagated, blob, sas>>
       ELSE IF OpenForRead(csv_file_path, csv_file) /\ upOk /\ sasOk
       THEN /\ blob_uploaded' = TRUE
            /\ blob' = [exists |-> TRUE, name |-> blob_name,
                         content |-> csv_file.records,
                         settings |-> ContentSettingsOf(blob_name)]
            /\ sas' = generate_blob_sas(ContainerName, blob_name, clock)
            /\ csv_url' = PresignedUrl
            /\ mpc' = "respond"
            /\ UNCHANGED <<mlog, failed, propagated>>
       ELSE LET call == IF upOk THEN "sas" ELSE "upload"
                ext == OpenForRead(csv_file_path, csv_file)
            IN  /\ blob_uploaded' = (ext /\ upOk)
                /\ blob' = IF ext /\ upOk
                            THEN [exists |-> TRUE, name |-> blob_name,
                                  content |-> csv_file.records,
                                  settings |-> ContentSettingsOf(blob_name)]
                            ELSE blob
                /\ UNCHANGED sas
                /\ failed' = IF ext THEN failed \cup {call} ELSE failed
                /\ mlog' = Logged(UploadExcept, MsgUpload)
                /\ propagated' = IF ext /\ UploadExcept.reraises
                                 THEN propagated \cup {call}
                                 ELSE propagated
                /\ IF UploadExcept.reraises
                   THEN /\ mpc' = "raised"
                        /\ UNCHANGED csv_url
                   ELSE /\ mpc' = "respond"
                        /\ csv_url' = "None"
    /\ UNCHANGED <<req, token, conn, conn_user, cursor, sql_query, executed,
                   query_ok, csv_file_path, status, body, sent>>
    /\ UNCHANGED <<connect_args, query_results, csv_file, blob_name, clock>>
    /\ UNCHANGED <<fanVars, pairVars>>

\* response = {'openaiFileResponse': [csv_url]}; cursor.close(); conn.close();
\* return func.HttpResponse(json.dumps(response), status_code=200)
Respond ==
    /\ mpc = "respond"
    /\ IF cursor = "unbound" \/ conn = "unbound"
       THEN /\ mpc' = "raised"
            /\ UNCHANGED <<cursor, conn, status, body, sent>>
       ELSE /\ cursor' = "closed"
            /\ conn' = "closed"
            /\ status' = 200
            /\ body' = FileResponse(csv_url)
            /\ sent' = sent + 1
            /\ mpc' = "done"
    /\ UNCHANGED <<req, token, conn_user, sql_query, executed, query_ok,
                   csv_file_path, blob_uploaded, csv_url, mlog, failed, propagated>>
    /\ UNCHANGED <<connect_args, query_results, csv_file, blob_name, blob, sas, clock>>
    /\ UNCHANGED <<fanVars, pairVars>>

\* An exception that leaves the function: the Functions host answers the
\* request with the schema's 500, without a body of the function's making.
HostError ==
    /\ mpc = "raised"
    /\ status' = 500
    /\ body' = <<>>
    /\ sent' = sent + 1
    /\ mpc' = "done"
    /\ UNCHANGED <<req, token, conn, conn_user, cursor, sql_query, executed,
                   query_ok, csv_file_path, blob_uploaded, csv_url, mlog, failed,
                   propagated>>
    /\ UNCHANGED <<connect_args, query_results, csv_file, blob_name, blob, sas, clock>>
    /\ UNCHANGED <<fanVars, pairVars>>

\* Time passes while the invocation runs.
Tick ==
    /\ mpc \notin {"idle", "done"}
    /\ clock < MaxClock
    /\ clock' = clock + 1
    /\ UNCHANGED <<mpc, req, token, conn, conn_user, cursor, sql_query, executed,
                   query_ok, csv_file_path, blob_uploaded, csv_url, status, body,
                   sent, mlog, failed, propagated, connect_args, query_results,
                   csv_file, blob_name, blob, sas>>
    /\ UNCHANGED <<fanVars, pairVars>>

MwNext ==
    \/ ExtractToken
    \/ \E netOk \in BOOLEAN : Connect(netOk)
    \/ \E execOk \in BOOLEAN, rows \in SeqsUpTo(RowValues, MaxRows) :
          ExecuteQuery(execOk, rows)
    \/ \E csvOk \in BOOLEAN : WriteCsv(csvOk)
    \/ \E upOk \in BOOLEAN, sasOk \in BOOLEAN : Upload(upOk, sasOk)
    \/ Respond
    \/ HostError
    \/ Tick

\* ------------------------------------------- concurrent upload_csv_to_azure

Callers == 1..NumCallers

\* The files the invocations are called with: the CSV of no row, or of one.
PairFiles == {CsvRecords(ColumnNames, rows) : rows \in SeqsUpTo(RowValues, 1)}

\* An upload_blob that leaves an existing blob alone (the default).
OverwriteDefault == FALSE

\* upload_blob(data, overwrite=True, ...)
Overwrite == TRUE

\* upload_blob raises ResourceExistsError for a name that is taken, unless it
\* is told to overwrite.
BlobNameTaken(store, name) == store[name].exists /\ ~Overwrite

\* upload_blob(data, overwrite=True, content_settings=...): the blob of that
\* name holds the data, whatever it held before.
upload_blob(store, name, data) ==
    [store EXCEPT ![name] = [exists |-> TRUE, name |-> name, content |-> data,
                             settings |-> ContentSettingsOf(name)]]

\* What a GET of the URL gives: the URL names the container and the blob, so
\* it gives what the blob of that name holds when it is asked for.
Serves(url) == container[url].content

PairIdle ==
    /\ ppc = [r \in Callers |-> "idle"]
    /\ pname = [r \in Callers |-> "b1.csv"]
    /\ pfile = [r \in Callers |-> <<>>]
    /\ container = [n \in BlobNames |-> NoBlob]
    /\ purl = [r \in Callers |-> "unbound"]
    /\ last = [n \in BlobNames |-> 0]
    /\ pfailed = {}

PairInit ==
    /\ ppc = [r \in Callers |-> "upload"]
    /\ pname \in [Callers -> BlobNames]
    /\ pfile \in [Callers -> PairFiles]
    /\ container = [n \in BlobNames |-> NoBlob]
    /\ purl = [r \in Callers |-> "unbound"]
    /\ last = [n \in BlobNames |-> 0]
    /\ pfailed = {}

\* with open(file_path, "rb") as data: blob_client.upload_blob(...), and the
\* except clause's raise.  upOk: the service takes the upload.
UploadBlob(r, upOk) ==
    /\ ppc[r] = "upload"
    /\ IF upOk /\ ~BlobNameTaken(container, pname[r])
       THEN /\ container' = upload_blob(container, pname[r], pfile[r])
            /\ last' = [last EXCEPT ![pname[r]] = r]
            /\ ppc' = [ppc EXCEPT ![r] = "sas"]
            /\ UNCHANGED pfailed
       ELSE /\ ppc' = [ppc EXCEPT ![r] = "raised"]
            /\ pfailed' = IF upOk THEN pfailed ELSE pfailed \cup {r}
            /\ UNCHANGED <<container, last>>
    /\ UNCHANGED <<pname, pfile, purl>>
    /\ UNCHANGED <<fanVars, mwVars>>

\* sas_token = generate_blob_sas(...); url = f"https://.../{container_name}/
\* {blob_name}?{sas_token}"; return url, and the except clause's raise.
\* sasOk: generate_blob_sas returns.
ReturnUrl(r, sasOk) ==
    /\ ppc[r] = "sas"
    /\ IF sasOk
       THEN /\ purl' = [purl EXCEPT ![r] = pname[r]]
            /\ ppc' = [ppc EXCEPT ![r] = "returned"]
            /\ UNCHANGED pfailed
       ELSE /\ ppc' = [ppc EXCEPT ![r] = "raised"]
            /\ pfailed' = pfailed \cup {r}
            /\ UNCHANGED purl
    /\ UNCHANGED <<pname, pfile, container, last>>
    /\ UNCHANGED <<fanVars, mwVars>>

PairNext ==
    \/ \E r \in Callers, upOk \in BOOLEAN : UploadBlob(r, upOk)
    \/ \E r \in Callers, sasOk \in BOOLEAN : ReturnUrl(r, sasOk)

\* ---------------------------------------------------------- specifications

\* The program that is not running: the notebook before its first cell ...
FanIdle ==
    /\ pc = "idle"
    /\ csv_rows = <<>>
    /\ articles = <<>>
    /\ wstate = <<>>
    /\ requests = <<>>
    /\ response = NoResponses
    /\ future = <<>>
    /\ fs = <<>>
    /\ results = <<>>
    /\ printed = 0
    /\ df = <<>>
    /\ shown = <<>>
    /\ uncaught = "none"
    /\ overtaken = FALSE

\* ... and the function before a request arrives.
MwIdle ==
    /\ mpc = "idle"
    /\ req = [auth |-> NoHeader, params |-> "None", body |-> "q1"]
    /\ token = "unbound"
    /\ conn = "unbound"
    /\ conn_user = "None"
    /\ cursor = "unbound"
    /\ sql_query = "unbound"
    /\ executed = <<>>
    /\ query_ok = FALSE
    /\ csv_file_path = "unbound"
    /\ blob_uploaded = FALSE
    /\ csv_url = "unbound"
    /\ status = 0
    /\ body = <<>>
    /\ sent = 0
    /\ mlog = <<>>
    /\ failed = {}
    /\ propagated = {}
    /\ connect_args = NoConnect
    /\ query_results = <<>>
    /\ csv_file = NoFile
    /\ blob_name = "b1.csv"
    /\ blob = NoBlob
    /\ sas = NoSas
    /\ clock = 0

\* The routine-generation notebook.
Init == FanInit /\ MwIdle /\ PairIdle

Next == FanNext

Spec == Init /\ [][Next]_vars

\* The routine-generation notebook with its scheduling: the notebook's own
\* thread goes on, every pool thread gets to run, and every create() call
\* returns or raises in the end.
LiveInit == Init /\ Len(csv_rows) <= LiveArticles

Fairness ==
    /\ WF_vars(ReadArticles)
    /\ WF_vars(Map)
    /\ WF_vars(Collect)
    /\ WF_vars(Shutdown)
    /\ WF_vars(MakeDataFrame)
    /\ WF_vars(Display)
    /\ \A i \in 1..LiveArticles : WF_vars(i \in Indices /\ Start(i))
    /\ \A i \in 1..LiveArticles :
          WF_vars(i \in Indices /\ \E r \in Responses : Finish(i, r))

LiveSpec == LiveInit /\ [][Next]_vars /\ Fairness

\* One invocation of the middleware function.
InitMw == MwInit /\ FanIdle /\ PairIdle

NextMw == MwNext

MwSpec == InitMw /\ [][NextMw]_vars

\* Concurrent invocations of upload_csv_to_azure.
InitPair == PairInit /\ FanIdle /\ MwIdle

NextPair == PairNext

PairSpec == InitPair /\ [][NextPair]_vars

\* ------------------------------------------------------------- properties

\* The fan-out is over: list(executor.map(...)) and the with block are done.
AfterFanOut == pc \in {"df", "display", "done", "crashed"}

FailedCalls == {i \in DOMAIN response : ~response[i].ok}

\* C1: the i-th entry of results is the record of the i-th entry of articles
\* (same policy, same content), at every moment of the collection and after
\* it, when results has one entry per article, in whatever order the workers
\* ended.
C1_ResultsPositional ==
    /\ \A k \in DOMAIN results :
          /\ k \in DOMAIN articles
          /\ results[k].policy = articles[k].policy
          /\ results[k].content = articles[k].content
    /\ AfterFanOut => Len(results) = Len(articles)

\* A later work item ended before an earlier one, and the two records differ.
C1_Witness ==
    /\ pc = "df"
    /\ overtaken
    /\ Len(results) >= 2
    /\ results[1].policy # results[2].policy

\* C2: no article is ever requested twice (a request is one call of
\* client.chat.completions.create), also after its call failed; after the
\* fan-out every article was requested exactly once and results holds as
\* many records as there are articles.
C2_OneRequestPerArticle ==
    /\ \A i \in DOMAIN requests : requests[i] <= 1
    /\ AfterFanOut =>
          /\ \A i \in Indices : requests[i] = 1
          /\ Len(results) = Len(articles)

\* The fan-out is over for two articles or more, one of whose calls failed.
C2_Witness ==
    /\ pc = "df"
    /\ Len(articles) >= 2
    /\ \E i \in FailedCalls : requests[i] = 1

\* C3: a failed call is caught and printed inside generate_routine: every
\* finished work item holds a result, never an exception, no exception of a
\* worker ends the run, one line is printed per failed call, the record of a
\* failed call has the routine None and every other record the text its own
\* call returned.
C3_FailureStaysInWorker ==
    /\ uncaught # "Exception"
    /\ printed = Cardinality(FailedCalls)
    /\ \A i \in DOMAIN future :
          wstate[i] = "done" =>
             /\ future[i].kind = "result"
             /\ future[i].value.policy = articles[i].policy
             /\ future[i].value.content = articles[i].content
             /\ ~response[i].ok => future[i].value.routine = None
             /\ response[i].ok => future[i].value.routine = Some(response[i].text)

\* One call failed, another returned, both records are there.
C3_Witness ==
    /\ pc = "df"
    /\ \E i, j \in Indices :
          /\ ~response[i].ok
          /\ response[j].ok
          /\ results[i].routine = None
          /\ results[j].routine = Some(response[j].text)

\* C4: when the call failed for some of the articles, the run prints the
\* failure and goes on: once it has ended, the table with one row per
\* article has been displayed, once.
C4_TableDisplayedDespiteFailures ==
    (pc \in {"done", "crashed"} /\ FailedCalls # {}) =>
        /\ printed >= 1
        /\ Len(shown) = 1
        /\ Len(shown[1]) = Len(articles)

\* C5: the table is assembled and displayed only after every worker has
\* finished.
C5_JoinBarrier ==
    /\ AfterFanOut => \A i \in Indices : wstate[i] = "done"
    /\ (df # <<>> \/ shown # <<>>) => \A i \in Indices : wstate[i] = "done"

\* The table of two or more records is about to be displayed, after a run in
\* which a later work item ended before an earlier one.
C5_Witness ==
    /\ pc = "display"
    /\ Len(df) >= 2
    /\ overtaken

\* C6: after the fan-out, results is a function of the articles and of the
\* outcome of each article's own call, and of nothing else: not of the
\* interleaving, not of another article's call.
C6_ResultsDetermined ==
    AfterFanOut =>
        results = [i \in Indices |->
                     [policy  |-> articles[i].policy,
                      content |-> articles[i].content,
                      routine |-> IF response[i].ok
                                  THEN Some(response[i].text)
                                  ELSE None]]

\* Two calls with different outcomes, ended out of order.
C6_Witness ==
    /\ pc = "df"
    /\ overtaken
    /\ \E i, j \in Indices : response[i] # response[j]

\* The message an external call's failure is logged with.
MsgOf(call) ==
    CASE call = "connect" -> MsgConnect
      [] call = "execute" -> MsgQuery
      [] call = "csv"     -> MsgCsv
      [] OTHER            -> MsgUpload

InLog(m) == \E k \in DOMAIN mlog : mlog[k] = m

\* C7, as stated: the failure of any of the external calls (connect, query
\* execution, CSV write, blob upload, SAS generation) is caught and logged at
\* that call and does not reach the caller.
C7_CatchLogContinue ==
    \A c \in failed : InLog(MsgOf(c)) /\ c \notin propagated

\* C7, amended: every such failure is caught and logged at its call; that of
\* the connect, of the query execution and of the CSV write goes no further,
\* that of the blob upload and of the SAS generation is raised again to the
\* caller of upload_csv_to_azure.
C7_CatchLogAndReraiseUpload ==
    \A c \in failed :
        /\ InLog(MsgOf(c))
        /\ c \in propagated <=> c \in {"upload", "sas"}

\* The CSV write failed, was logged, and the invocation went on to the upload.
C7_Witness ==
    /\ mpc = "upload"
    /\ failed = {"csv"}
    /\ InLog(MsgCsv)
    /\ csv_file_path = "None"

\* The token of the request is missing or invalid.
AuthMissingOrInvalid ==
    \/ ~req.auth.present
    \/ Len(req.auth.parts) # 2
    \/ req.auth.parts[2] \in {"garbage", "tokExpired"}

\* C8: a request whose token is missing or invalid is answered with 401.
C8_Unauthorized401 ==
    (mpc = "done" /\ AuthMissingOrInvalid) => status = 401

\* C9: an invocation ends with one response, which is either 200 with a list
\* of file URLs or one of the error statuses 401, 400, 500; and the response
\* is 200 only if the query was executed.
C9_DeclaredOutcomes ==
    mpc = "done" =>
        /\ sent = 1
        /\ \/ /\ status = 200
              /\ Len(body) >= 1
              /\ \A k \in DOMAIN body : body[k] = PresignedUrl
           \/ /\ status \in {401, 400, 500}
              /\ body = <<>>
        /\ status = 200 => query_ok

\* The query reached Snowflake and failed, and the invocation has ended.
C9_Witness ==
    /\ mpc = "done"
    /\ "execute" \in failed
    /\ status = 500

\* C10: whatever cursor.execute is called with is the sql_query of the
\* request's JSON body.
C10_ExecutesBodyQuery ==
    \A k \in DOMAIN executed : executed[k] = req.body

\* C11: a 200 response carries an openaiFileResponse list of at least one and
\* at most 10 entries; the function returns exactly one, the presigned URL
\* bound to csv_url.
C11_SuccessfulResponse ==
    status = 200 =>
        /\ Len(body) >= 1
        /\ Len(body) <= MaxFileResponses
        /\ Len(body) = 1
        /\ body[1] = PresignedUrl
        /\ body[1] = csv_url

\* The invocation ended with 200.
C11_Witness ==
    /\ mpc = "done"
    /\ status = 200
    /\ body = <<PresignedUrl>>

\* C12: the SAS token behind a returned URL grants read and nothing else, on
\* the blob just uploaded and on no other, and expires exactly one hour after
\* it was generated.
C12_SasReadOnlyOneHour ==
    /\ csv_url = PresignedUrl => sas.minted
    /\ sas.minted =>
          /\ sas.permissions = {"read"}
          /\ sas.container = ContainerName
          /\ sas.blob = blob_name
          /\ blob.exists /\ blob.name = sas.blob
          /\ sas.issued <= clock
          /\ sas.expiry = sas.issued + 1

\* A URL was returned whose token was generated after the clock had moved.
C12_Witness ==
    /\ csv_url = PresignedUrl
    /\ sas.minted
    /\ sas.issued >= 1

\* C13: every blob upload_csv_to_azure uploads has the content type text/csv
\* and the content disposition attachment with the blob's name as filename,
\* and every URL returned is that of such a blob.
C13_BlobHeaders ==
    /\ csv_url = PresignedUrl => blob.exists
    /\ blob.exists =>
          /\ blob.name = blob_name
          /\ blob.settings.content_type = "text/csv"
          /\ blob.settings.content_disposition = <<"attachment; filename=", blob.name>>

\* A blob was uploaded and its URL returned.
C13_Witness ==
    /\ csv_url = PresignedUrl
    /\ blob.exists
    /\ blob.name = "b2.csv"

\* The values of a delimited record.
FieldsOf(line) == [j \in 1..((Len(line) + 1) \div 2) |-> line[2 * j - 1]]

\* C14: the file write_results_to_csv wrote holds the column names as its
\* first record, then one record per returned row, each row once and in the
\* order fetchall returned them: 1 + number of rows records.
C14_CsvHeaderThenRows ==
    csv_file.exists =>
        /\ Len(csv_file.records) = 1 + Len(query_results)
        /\ FieldsOf(csv_file.records[1]) = ColumnNames
        /\ \A k \in DOMAIN query_results :
              FieldsOf(csv_file.records[k + 1]) = query_results[k]

\* A file was written for two different rows.
C14_Witness ==
    /\ csv_file.exists
    /\ Len(query_results) = 2
    /\ query_results[1] # query_results[2]

\* The upn claim a token carries.
UpnClaim(t) ==
    CASE t = "tokBob" -> "bob@example.com"
      [] t \in {"tokAlice", "tokExpired"} -> "alice@example.com"
      [] OTHER -> "None"

\* C15: snowflake.connector.connect is called with the token of the request's
\* own Authorization header and with the user that token's upn claim names,
\* and a connection is open only for that user.
C15_ConnectsAsTokenUser ==
    /\ connect_args.called =>
          /\ req.auth.present /\ Len(req.auth.parts) = 2
          /\ connect_args.token = req.auth.parts[2]
          /\ connect_args.user = UpnClaim(connect_args.token)
    /\ conn # "unbound" =>
          /\ connect_args.called
          /\ conn_user = UpnClaim(req.auth.parts[2])

\* A connection is open for the user of the second token.
C15_Witness ==
    /\ conn = "open"
    /\ conn_user = "bob@example.com"
    /\ connect_args.token = "tokBob"

UniquePolicies(list) ==
    \A i, j \in DOMAIN list : i # j => list[i].policy # list[j].policy

\* C16, as stated: once the articles are read, no two entries of articles
\* have the same policy.
C16_UniquePolicies == pc # "read" => UniquePolicies(articles)

\* C16, amended: articles has one entry per row of the CSV, and when no two
\* rows of the CSV have the same policy, no two entries of articles have.
C16_UniqueIfCsvUnique ==
    pc # "read" =>
        /\ Len(articles) = Len(csv_rows)
        /\ UniquePolicies(csv_rows) => UniquePolicies(articles)

\* Two rows with different policies were read.
C16_Witness ==
    /\ pc = "map"
    /\ Len(articles) = 2
    /\ articles[1].policy # articles[2].policy

\* C18: within one invocation the steps come in the documented order: the
\* token is extracted before connect is called, the query is executed only
\* on an established connection, the CSV is written only after the query
\* returned its rows, the presigned URL is generated only for an uploaded
\* blob, and 200 is sent only with that URL.
C18_StepsInOrder ==
    /\ connect_args.called => token # "unbound"
    /\ conn # "unbound" => connect_args.called
    /\ executed # <<>> => conn # "unbound"
    /\ cursor # "unbound" => conn # "unbound"
    /\ csv_file.exists => query_ok /\ executed # <<>>
    /\ csv_file_path = TempPath => csv_file.exists
    /\ blob.exists => csv_file.exists
    /\ sas.minted => blob.exists
    /\ csv_url = PresignedUrl => sas.minted
    /\ status = 200 => csv_url = PresignedUrl

\* The invocation went through every step and answered 200.
C18_Witness ==
    /\ mpc = "done"
    /\ status = 200
    /\ sas.minted
    /\ csv_file.exists
    /\ executed # <<>>

\* C19: when every create() call returns or raises in the end, the fan-out
\* completes in the end, with one record per article; and as long as a call
\* has not returned, the join is not over.
C19_FanOutCompletes ==
    /\ <>(AfterFanOut /\ Len(results) = Len(articles))
    /\ [](\A i \in DOMAIN wstate : wstate[i] = "calling" => ~AfterFanOut)

\* The fan-out completed for two articles, one of whose calls raised.
C19_Witness ==
    /\ pc = "df"
    /\ Len(results) = 2
    /\ Len(articles) = 2
    /\ FailedCalls # {}

\* C20: once the handling of a request has ended, neither the connection nor
\* the cursor it opened is still open.
C20_ConnectionsClosed ==
    mpc = "done" => conn # "open" /\ cursor # "open"

\* The connect step is over and left conn unbound.
ConnectFailed ==
    /\ mpc \in {"query", "csv", "upload", "respond", "raised", "done"}
    /\ token # "unbound"
    /\ conn = "unbound"

\* C21: after a failed Snowflake connection, which is caught and logged, no
\* query reaches Snowflake, no CSV is written, no blob is uploaded, and the
\* request does not end in a 200 response.
C21_NothingAfterFailedConnect ==
    ConnectFailed =>
        /\ InLog(MsgConnect)
        /\ executed = <<>>
        /\ ~query_ok
        /\ ~csv_file.exists
        /\ csv_file_path = "unbound"
        /\ ~blob.exists
        /\ csv_url # PresignedUrl
        /\ status # 200

\* Snowflake refused the connection and the request ended without a 200.
C21_Witness ==
    /\ ConnectFailed
    /\ "connect" \in failed
    /\ InLog(MsgQuery)
    /\ mpc = "done"
    /\ status = 500

\* The Authorization header is absent or is not a scheme and a token.
NotTwoParts == ~req.auth.present \/ Len(req.auth.parts) # 2

\* C22: a request whose Authorization header is absent, or does not split in
\* exactly two parts, fails at the token extraction, outside any try block
\* (nothing is logged), before a connection is attempted: no connection is
\* opened and no query is executed for it.
C22_FailsAtExtraction ==
    NotTwoParts =>
        /\ mpc \in {"extract", "raised", "done"}
        /\ token = "unbound"
        /\ ~connect_args.called
        /\ conn = "unbound"
        /\ cursor = "unbound"
        /\ executed = <<>>
        /\ mlog = <<>>
        /\ status # 200

\* A request with a header of three parts ended in the host's error.
C22_Witness ==
    /\ req.auth.present
    /\ Len(req.auth.parts) = 3
    /\ mpc = "done"
    /\ status = 500

\* upload_csv_to_azure was entered and is over.
UploadCalled ==
    /\ csv_file_path # "unbound"
    /\ mpc \in {"respond", "raised", "done"}

\* C23: upload_csv_to_azure returns a URL only when the upload and the SAS
\* generation both succeeded; on a failure it logs the error and raises it
\* again; it never returns None, nor a URL for a blob that was not uploaded.
C23_UrlOnlyAfterUploadAndSas ==
    /\ csv_url # "None"
    /\ csv_url = PresignedUrl =>
          /\ blob.exists
          /\ blob.name = blob_name
          /\ sas.minted
          /\ sas.blob = blob_name
          /\ failed \cap {"upload", "sas"} = {}
    /\ (UploadCalled /\ csv_url # PresignedUrl) =>
          /\ InLog(MsgUpload)
          /\ csv_url = "unbound"
          /\ (failed \cap {"upload", "sas"}) \subseteq propagated
          /\ status # 200

\* The blob was uploaded, the SAS generation failed: no URL, the error left
\* the function.
C23_Witness ==
    /\ blob.exists
    /\ "sas" \in failed
    /\ "sas" \in propagated
    /\ csv_url = "unbound"
    /\ mpc = "done"

\* C24: write_results_to_csv never raises: on success it returns the path of
\* the file it wrote, on a failure it logs the error and returns None; the
\* None path makes the upload that follows fail, so that a failure to write
\* the CSV never leads to a returned URL.
C24_CsvFailureGivesNoUrl ==
    /\ "csv" \notin propagated
    /\ csv_file_path = TempPath => (csv_file.exists /\ "csv" \notin failed)
    /\ "csv" \in failed =>
          /\ InLog(MsgCsv)
          /\ csv_file_path = "None"
          /\ ~blob.exists
          /\ csv_url # PresignedUrl
          /\ status # 200
    /\ ("csv" \in failed /\ mpc \in {"respond", "raised", "done"}) =>
          InLog(MsgUpload)

\* The CSV could not be written and the upload that followed failed.
C24_Witness ==
    /\ "csv" \in failed
    /\ csv_file_path = "None"
    /\ InLog(MsgUpload)
    /\ mpc = "done"
    /\ status = 500

\* C25: the temporary file is closed, with all its rows flushed, before its
\* path is returned, and closing does not delete it: whenever the upload has
\* opened the path it has read the complete CSV, and the file is still there
\* when the request is over.
C25_TempFileCompleteAndKept ==
    /\ csv_file_path = TempPath =>
          /\ csv_file.exists
          /\ csv_file.closed
          /\ csv_file.buffer = <<>>
          /\ csv_file.records = CsvRecords(ColumnNames, query_results)
    /\ blob.exists =>
          /\ csv_file.exists
          /\ blob.content = CsvRecords(ColumnNames, query_results)

\* The request is over, the blob holds the header and a row, the file stays.
C25_Witness ==
    /\ mpc = "done"
    /\ status = 200
    /\ blob.exists
    /\ Len(blob.content) >= 2
    /\ csv_file.exists

\* The other invocations that are called with the blob name of r.
SameName(r) == {q \in Callers \ {r} : pname[q] = pname[r]}

\* C26: upload_csv_to_azure overwrites: invocations with the same container
\* and blob name all succeed (none raises unless one of its calls failed) and
\* leave one blob, holding the content of whichever upload completed last, so
\* that every URL returned for that name serves that content; an invocation
\* whose blob name no other one uses gets a URL that serves its own CSV.
C26_LastUploadWins ==
    /\ \A r \in Callers : ppc[r] = "raised" => r \in pfailed
    /\ \A n \in BlobNames :
          container[n].exists =>
              /\ last[n] \in Callers
              /\ pname[last[n]] = n
              /\ container[n].content = pfile[last[n]]
    /\ \A r \in Callers :
          purl[r] # "unbound" =>
              /\ purl[r] = pname[r]
              /\ container[pname[r]].exists
              /\ Serves(purl[r]) = pfile[last[pname[r]]]
              /\ SameName(r) = {} => Serves(purl[r]) = pfile[r]

\* Two invocations with the same blob name both returned their URL, and the
\* URL of one serves the CSV of the other, which is not its own.
C26_Witness ==
    \E r \in Callers :
        \E q \in SameName(r) :
            /\ ppc[r] = "returned"
            /\ ppc[q] = "returned"
            /\ pfile[r] # pfile[q]
            /\ Serves(purl[r]) = pfile[q]

====
